---- MODULE Spec2Model ----
(***************************************************************************)
(* Model of the ingestion / normalization / enrichment pipeline of the     *)
(* DC Spec Dashboard (src/index.tsx): handleFileUpload, reader.onload,     *)
(* processAndSaveData, geocodeAddress and the delayed switch-off timers.   *)
(*                                                                         *)
(* JavaScript values are records [t, n, s]: t is the type tag, n the       *)
(* number (integers only: no modelled input holds a decimal point) and s   *)
(* the string as a sequence of one-character strings.  A Hangul syllable   *)
(* is one character written as a romanised token starting with "#".        *)
(*                                                                         *)
(* Every action is one turn of the event loop: an event handler or the     *)
(* continuation of an await, up to the next await or return.  The change   *)
(* handler of the file input tests nothing but the presence of a file, so  *)
(* a second upload may start while an earlier one is under way.  The ghost *)
(* fields lookups, results, saved and commits of a run record what it has  *)
(* requested, received and handed to setData.                              *)
(*                                                                         *)
(* src/unnamed/part_000 holds an earlier variant of the same handlers      *)
(* (progress 60 instead of 5 and no update inside the loop, a 600 ms       *)
(* pacing delay, trimmed text cells, no test against the placeholder in    *)
(* the candidate filter); the definitions follow src/index.tsx.            *)
(***************************************************************************)
EXTENDS Integers, Sequences, FiniteSets, TLC

(* ------------------------------ bounds -------------------------------- *)
\* rows in one uploaded sheet
MaxRows == 2
\* uploads started in one behaviour
MaxUploads == 2

(* --------------------------- JavaScript values ------------------------ *)
Undefined == [t |-> "undefined", n |-> 0, s |-> <<>>]
Null == [t |-> "null", n |-> 0, s |-> <<>>]
NaN == [t |-> "NaN", n |-> 0, s |-> <<>>]
Num(k) == [t |-> "number", n |-> k, s |-> <<>>]
Str(cs) == [t |-> "string", n |-> 0, s |-> cs]

\* JavaScript truthiness: 0, NaN, "", null and undefined are falsy
Truthy(v) ==
    CASE v.t = "number" -> v.n # 0
      [] v.t = "string" -> v.s # <<>>
      [] OTHER -> FALSE

\* a || b
OrElse(a, b) == IF Truthy(a) THEN a ELSE b

Digits == <<"0", "1", "2", "3", "4", "5", "6", "7", "8", "9">>
IsDigit(c) == \E i \in 1..10 : Digits[i] = c
DigitVal(c) == (CHOOSE i \in 1..10 : Digits[i] = c) - 1

RECURSIVE NatToChars(_)
NatToChars(k) ==
    IF k < 10 THEN <<Digits[k + 1]>>
    ELSE NatToChars(k \div 10) \o <<Digits[(k % 10) + 1]>>

\* String(v) for the values that reach it
ToStringJS(v) ==
    CASE v.t = "string" -> v.s
      [] v.t = "number" -> IF v.n < 0 THEN <<"-">> \o NatToChars(-v.n) ELSE NatToChars(v.n)
      [] v.t = "NaN" -> <<"N", "a", "N">>
      [] v.t = "null" -> <<"n", "u", "l", "l">>
      [] OTHER -> <<"u", "n", "d", "e", "f", "i", "n", "e", "d">>

IsSpace(c) == c = " "

RECURSIVE SkipSpaces(_)
SkipSpaces(cs) ==
    IF cs # <<>> /\ IsSpace(Head(cs)) THEN SkipSpaces(Tail(cs)) ELSE cs

RECURSIVE DigitPrefix(_)
DigitPrefix(cs) ==
    IF cs # <<>> /\ IsDigit(Head(cs)) THEN <<Head(cs)>> \o DigitPrefix(Tail(cs)) ELSE <<>>

RECURSIVE DigitsToNat(_, _)
DigitsToNat(cs, acc) ==
    IF cs = <<>> THEN acc ELSE DigitsToNat(Tail(cs), 10 * acc + DigitVal(Head(cs)))

\* parseFloat on a string without exponent: leading white space, an optional
\* sign, the longest run of digits, then a decimal point and a second run of
\* digits; NaN when both runs are empty. Numbers are integers here: no input
\* carries a digit other than 0 behind a decimal point.
parseFloat(cs) ==
    LET t == SkipSpaces(cs)
        neg == t # <<>> /\ Head(t) = "-"
        u == IF t # <<>> /\ Head(t) \in {"-", "+"} THEN Tail(t) ELSE t
        d == DigitPrefix(u)
        rest == SubSeq(u, Len(d) + 1, Len(u))
        frac == IF rest # <<>> /\ Head(rest) = "." THEN DigitPrefix(Tail(rest)) ELSE <<>>
    IN  IF d = <<>> /\ frac = <<>> THEN NaN
        ELSE Num(IF neg THEN -DigitsToNat(d, 0) ELSE DigitsToNat(d, 0))

(* --------------------------- utility functions ------------------------ *)
UpperCase ==
    <<"A", "B", "C", "D", "E", "F", "G", "H", "I", "J", "K", "L", "M",
      "N", "O", "P", "Q", "R", "S", "T", "U", "V", "W", "X", "Y", "Z">>
LowerCase ==
    <<"a", "b", "c", "d", "e", "f", "g", "h", "i", "j", "k", "l", "m",
      "n", "o", "p", "q", "r", "s", "t", "u", "v", "w", "x", "y", "z">>

toLowerCase(cs) ==
    [i \in 1..Len(cs) |->
        IF \E j \in 1..26 : UpperCase[j] = cs[i]
        THEN LowerCase[CHOOSE j \in 1..26 : UpperCase[j] = cs[i]]
        ELSE cs[i]]

Aliases_project_name ==
    << <<"p", "r", "o", "j", "e", "c", "t", "_", "n", "a", "m", "e">>,
       <<"#peu", "#ro", "#jek", "#teu", "#myeong">>,
       <<"#hyeon", "#jang", "#myeong">>,
       <<"P", "J", "T">>,
       <<"p", "r", "o", "j", "e", "c", "t">> >>
Aliases_year ==
    << <<"y", "e", "a", "r">>,
       <<"#yeon", "#do">>,
       <<"#nyeon">>,
       <<"#nyeon", "#do">> >>
Aliases_month ==
    << <<"m", "o", "n", "t", "h">>,
       <<"#wol">> >>
Aliases_progress ==
    << <<"p", "r", "o", "g", "r", "e", "s", "s">>,
       <<"#jin", "#haeng", "#nae", "#yong">>,
       <<"#sang", "#tae">>,
       <<"s", "t", "a", "t", "u", "s">> >>
Aliases_address ==
    << <<"a", "d", "d", "r", "e", "s", "s">>,
       <<"#ju", "#so">>,
       <<"#sang", "#se", "#ju", "#so">>,
       <<"a", "d", "d", "r">> >>
Aliases_latitude ==
    << <<"l", "a", "t", "i", "t", "u", "d", "e">>,
       <<"#wi", "#do">>,
       <<"l", "a", "t">>,
       <<"y">>,
       <<"l", "a", "t", "i", "t", "u", "d", "e", "_", "v", "a", "l">> >>
Aliases_longitude ==
    << <<"l", "o", "n", "g", "i", "t", "u", "d", "e">>,
       <<"#gyeong", "#do">>,
       <<"l", "n", "g">>,
       <<"l", "o", "n", "g">>,
       <<"x">>,
       <<"l", "o", "n", "g", "i", "t", "u", "d", "e", "_", "v", "a", "l">> >>
Aliases_designer ==
    << <<"d", "e", "s", "i", "g", "n", "e", "r">>,
       <<"#seol", "#gye", "#sa">>,
       <<"#seol", "#gye">> >>
Aliases_constructor ==
    << <<"c", "o", "n", "s", "t", "r", "u", "c", "t", "o", "r">>,
       <<"#geon", "#seol", "#sa">>,
       <<"#si", "#gong", "#sa">>,
       <<"#si", "#gong">> >>
Aliases_product_name ==
    << <<"p", "r", "o", "d", "u", "c", "t", "_", "n", "a", "m", "e">>,
       <<"#je", "#pum", "#myeong">>,
       <<"#pum", "#myeong">> >>
Aliases_quantity ==
    << <<"q", "u", "a", "n", "t", "i", "t", "y">>,
       <<"#mul", "#ryang">>,
       <<"#su", "#ryang">> >>
Aliases_spec_amount ==
    << <<"s", "p", "e", "c", "_", "a", "m", "o", "u", "n", "t">>,
       <<"#seu", "#pek", "#ryang">>,
       <<"#seu", "#pek">>,
       <<"#hap", "#gye">>,
       <<"a", "m", "o", "u", "n", "t">> >>
Hangul ==
    {"#do", "#geon", "#gi", "#gong", "#gye", "#gyeong", "#haeng", "#hap", "#hyeon", "#jang", "#je", "#jek", "#jin", "#ju", "#mul", "#myeong", "#nae", "#nyeon", "#pek", "#peu", "#pum", "#ro", "#ryang", "#sa", "#sang", "#se", "#seol", "#seu", "#si", "#so", "#su", "#ta", "#tae", "#teu", "#wi", "#wol", "#yeon", "#yong"}
IsKeyChar(c) ==
    \/ \E j \in 1..26 : LowerCase[j] = c
    \/ IsDigit(c)
    \/ c \in Hangul

\* key.toString().toLowerCase().replace(/[^a-z0-9가-힣]/g, '')
normalizeKey(key) == SelectSeq(toLowerCase(key), IsKeyChar)

\* faulty variant: the aliases are tried in their order, the first alias
\* that some key matches decides
getValByAliasOrder(row, aliases) ==
    LET keys == [i \in 1..Len(row) |-> normalizeKey(row[i].k)]
        names == [j \in 1..Len(aliases) |-> normalizeKey(aliases[j])]
        found == {j \in 1..Len(names) : \E i \in 1..Len(keys) : keys[i] = names[j]}
        alias == CHOOSE j \in found : \A l \in found : j <= l
        first == CHOOSE i \in 1..Len(keys) :
                     /\ keys[i] = names[alias]
                     /\ \A l \in 1..(i - 1) : keys[l] # names[alias]
    IN  IF found # {} /\ row[first].k # <<>> THEN row[first].v ELSE Undefined

\* A raw row is the sequence of its <<key, value>> entries in Object.keys order.
getVal(row, aliases) ==
    LET normalizedAliases == {normalizeKey(aliases[j]) : j \in 1..Len(aliases)}
        hits == {i \in 1..Len(row) : normalizeKey(row[i].k) \in normalizedAliases}
        first == CHOOSE i \in hits : \A j \in hits : i <= j
    IN  IF hits # {} /\ row[first].k # <<>> THEN row[first].v ELSE Undefined

IsNumChar(c) == IsDigit(c) \/ c = "."

parseNum(val) ==
    IF val.t \in {"undefined", "null"} \/ val = Str(<<>>) THEN 0
    ELSE IF val.t = "number" THEN val.n
    ELSE LET parsed == parseFloat(SelectSeq(ToStringJS(val), IsNumChar))
         IN  IF parsed.t = "NaN" THEN 0 ELSE parsed.n

Dash == <<"-">>

\* parseFloat(String(cell || '')) || null
parseCoord(cell) == OrElse(parseFloat(ToStringJS(OrElse(cell, Str(<<>>)))), Null)

\* String(cell || fallback)
parseText(cell, fallback) == ToStringJS(OrElse(cell, Str(fallback)))

\* one element of json.map((row, idx) => ({...})) in reader.onload
parseRow(row, idx) ==
    [id |-> idx,
     project_name |-> parseText(getVal(row, Aliases_project_name), <<>>),
     year |-> parseNum(getVal(row, Aliases_year)),
     month |-> parseNum(getVal(row, Aliases_month)),
     progress |-> parseText(getVal(row, Aliases_progress), Dash),
     address |-> parseText(getVal(row, Aliases_address), Dash),
     latitude |-> parseCoord(getVal(row, Aliases_latitude)),
     longitude |-> parseCoord(getVal(row, Aliases_longitude)),
     designer |-> parseText(getVal(row, Aliases_designer), Dash),
     constructor |-> parseText(getVal(row, Aliases_constructor), Dash),
     product_name |-> parseText(getVal(row, Aliases_product_name), Dash),
     quantity |-> parseNum(getVal(row, Aliases_quantity)),
     spec_amount |-> parseNum(getVal(row, Aliases_spec_amount))]

HasProjectName(r) == r.project_name # <<>>

\* json.map(...).filter(r => r.project_name)
parsed(json) ==
    SelectSeq([i \in 1..Len(json) |-> parseRow(json[i], i - 1)], HasProjectName)

(* ------------------------------ geocoding ------------------------------ *)
NoCoords == [ok |-> FALSE, lat |-> Null, lon |-> Null]

\* What the geocode service does with one request: the fetch rejects, the
\* status is not 2xx, the JSON array is empty, or its first element carries
\* the strings lat and lon.
geocodeAddress(resp) ==
    IF resp.kind = "first"
    THEN [ok |-> TRUE, lat |-> parseFloat(resp.lat), lon |-> parseFloat(resp.lon)]
    ELSE NoCoords

\* !d.latitude || !d.longitude
MissingCoord(d) == ~Truthy(d.latitude) \/ ~Truthy(d.longitude)

AddressMinLen == 5

\* the predicate of rawData.filter(...) that selects rowsToGeocode
IsCandidate(d) ==
    /\ MissingCoord(d)
    /\ d.address # <<>>
    /\ d.address # Dash
    /\ Len(d.address) > AddressMinLen

rowsToGeocode(rawData) == SelectSeq(rawData, IsCandidate)

\* Array.from(new Set(xs)): first occurrences, in order
RECURSIVE ArrayFromSet(_)
ArrayFromSet(xs) ==
    IF xs = <<>> THEN <<>>
    ELSE LET rest == ArrayFromSet(SubSeq(xs, 1, Len(xs) - 1))
             last == xs[Len(xs)]
         IN  IF \E i \in 1..Len(rest) : rest[i] = last THEN rest ELSE Append(rest, last)

\* faulty variant: the address list is not deduplicated
uniqueAddressesNoDedup(rawData) ==
    LET rows == rowsToGeocode(rawData)
    IN  [i \in 1..Len(rows) |-> rows[i].address]

uniqueAddresses(rawData) ==
    LET rows == rowsToGeocode(rawData)
    IN  ArrayFromSet([i \in 1..Len(rows) |-> rows[i].address])

\* geoCache is a function from the addresses that got coordinates
EmptyCache == [a \in {} |-> NoCoords]

\* faulty variant: latitude and longitude swapped on merge
mergeRowSwapped(d, geoCache) ==
    IF MissingCoord(d) /\ d.address \in DOMAIN geoCache
    THEN [d EXCEPT !.latitude = geoCache[d.address].lon,
                   !.longitude = geoCache[d.address].lat]
    ELSE d

\* rawData.map(d => ...) after the loop
mergeRow(d, geoCache) ==
    IF MissingCoord(d) /\ d.address \in DOMAIN geoCache
    THEN [d EXCEPT !.latitude = geoCache[d.address].lat,
                   !.longitude = geoCache[d.address].lon]
    ELSE d

finalData(rawData, geoCache) ==
    [i \in 1..Len(rawData) |-> mergeRow(rawData[i], geoCache)]

\* Math.round((i / n) * 90) + 5
loopProgress(i, n) == ((180 * i + n) \div (2 * n)) + 5

(* ------------------------------- inputs -------------------------------- *)
Incheon == <<"I", "n", "c", "h", "e", "o", "n">>
Daejeon == <<"D", "a", "e", "j", "e", "o", "n">>
Busan == <<"B", "u", "s", "a", "n">>

Cell(key, val) == [k |-> key, v |-> val]

\* no coordinate cells, an address worth looking up
RowNoCoords ==
    << Cell(<<"P", "J", "T">>, Str(<<"A">>)),
       Cell(<<"#ju", "#so">>, Str(Incheon)),
       Cell(<<"#yeon", "#do">>, Num(2024)),
       Cell(<<"#hap", "#gye">>, Num(500)) >>

\* same project and address, only the latitude cell parses
RowHalfCoords ==
    << Cell(<<"#hyeon", "#jang", "#myeong">>, Str(<<"A">>)),
       Cell(<<"A", "d", "d", "r", "e", "s", "s">>, Str(Incheon)),
       Cell(<<"L", "a", "t">>, Str(<<"3", "6">>)),
       Cell(<<"L", "N", "G">>, Str(<<"n", "/", "a">>)),
       Cell(<<"a", "m", "o", "u", "n", "t">>, Str(<<"7", "0", "0">>)) >>

\* a second address
RowOtherAddr ==
    << Cell(<<"p", "r", "o", "j", "e", "c", "t">>, Str(<<"B">>)),
       Cell(<<"a", "d", "d", "r">>, Str(Daejeon)),
       Cell(<<"#wol">>, Num(5)) >>

\* both coordinates present, project and address shared with RowNoCoords
RowWithCoords ==
    << Cell(<<"P", "r", "o", "j", "e", "c", "t", " ", "N", "a", "m", "e">>, Str(<<"A">>)),
       Cell(<<"#sang", "#se", "#ju", "#so">>, Str(Incheon)),
       Cell(<<"#wi", "#do">>, Num(38)),
       Cell(<<"#gyeong", "#do">>, Num(128)) >>

\* empty project name
RowNoName ==
    << Cell(<<"#hyeon", "#jang", "#myeong">>, Str(<<>>)),
       Cell(<<"#ju", "#so">>, Str(Daejeon)) >>

\* address of exactly AddressMinLen characters
RowShortAddr ==
    << Cell(<<"P", "J", "T">>, Str(<<"D">>)),
       Cell(<<"#ju", "#so">>, Str(Busan)) >>

\* no address cell, latitude 0
RowNoAddr ==
    << Cell(<<"P", "J", "T">>, Str(<<"E">>)),
       Cell(<<"y">>, Num(0)),
       Cell(<<"x">>, Num(127)) >>

RowPool ==
    {RowNoCoords, RowHalfCoords, RowOtherAddr, RowWithCoords, RowNoName,
     RowShortAddr, RowNoAddr}

\* what XLSX.utils.sheet_to_json can hand back
Sheets == UNION {[1..n -> RowPool] : n \in 0..MaxRows}

\* the normalized record lists reader.onload can hand to processAndSaveData
NormalizedSheets == {parsed(json) : json \in Sheets}

Response(kind, lat, lon) == [kind |-> kind, lat |-> lat, lon |-> lon]

Responses ==
    {Response("throw", <<>>, <<>>),
     Response("notok", <<>>, <<>>),
     Response("empty", <<>>, <<>>),
     Response("first", <<"3", "5">>, <<"1", "2", "9">>),
     Response("first", <<"x">>, <<"1", "2", "7">>)}

(* -------------------------------- state -------------------------------- *)
VARIABLES
    data,           \* useState<ExcelRow[]>
    isProcessing,   \* useState(false)
    loadingStatus,  \* useState("")
    progress,       \* useState(0)
    runs,           \* the closures of the uploads started so far
    uploads,        \* number of uploads started
    selectedYear,   \* useState<number>(0)
    selectedMonth,  \* useState<number>(0)
    arg,            \* the input handed to a function checked on its own
    ret             \* what that function returned

vars == <<data, isProcessing, loadingStatus, progress, runs, uploads,
          selectedYear, selectedMonth, arg, ret>>

\* the state the upload pipeline neither reads nor writes
filters == <<selectedYear, selectedMonth>>
harness == <<arg, ret>>

\* arg and ret while no function is being checked on its own
Idle == [f |-> "none", seq |-> <<>>, val |-> Undefined, aliases |-> <<>>]

RunIds == 1..MaxUploads

Status(msg, k, n) == [msg |-> msg, k |-> k, n |-> n]

\* locals of one upload: FileReader, then processAndSaveData's frame
NewRun ==
    [pc |-> "none",
     rawData |-> <<>>,
     uniqueAddresses |-> <<>>,
     i |-> 0,
     geoCache |-> EmptyCache,
     inflight |-> {},
     lookups |-> <<>>,
     results |-> <<>>,
     saved |-> <<>>,
     commits |-> 0]

\* the component as it is mounted
Mounted ==
    /\ data = <<>>
    /\ isProcessing = FALSE
    /\ loadingStatus = Status("", 0, 0)
    /\ progress = 0
    /\ runs = [r \in RunIds |-> NewRun]
    /\ uploads = 0
    /\ selectedYear = 0
    /\ selectedMonth = 0

Init ==
    /\ Mounted
    /\ arg = Idle
    /\ ret = Idle

\* the React state a continuation reads and writes
World ==
    [data |-> data, isProcessing |-> isProcessing,
     loadingStatus |-> loadingStatus, progress |-> progress]

Apply(r, res) ==
    /\ runs' = [runs EXCEPT ![r] = res.run]
    /\ data' = res.w.data
    /\ isProcessing' = res.w.isProcessing
    /\ loadingStatus' = res.w.loadingStatus
    /\ progress' = res.w.progress
    /\ UNCHANGED <<uploads, filters, harness>>

(* --------------------------- processAndSaveData ------------------------ *)
\* const coords = await geocodeAddress(addr): the request leaves
callGeocode(run, addr) ==
    [run EXCEPT !.pc = "fetch",
                !.inflight = @ \cup {addr},
                !.lookups = Append(@, addr)]

\* setData(rows); ...; setProgress(100); setTimeout(() => setIsProcessing(false), ms)
commit(run, w, rows, msg) ==
    [run |-> [run EXCEPT !.pc = "timer", !.saved = rows, !.commits = @ + 1],
     w |-> [w EXCEPT !.data = rows, !.loadingStatus = msg, !.progress = 100]]

\* the for loop from its test i < uniqueAddresses.length up to the next await
loopStep(run, w) ==
    LET n == Len(run.uniqueAddresses)
    IN  IF run.i < n
        THEN [run |-> callGeocode(run, run.uniqueAddresses[run.i + 1]),
              w |-> [w EXCEPT !.loadingStatus = Status("converting", run.i + 1, n),
                              !.progress = loopProgress(run.i, n)]]
        ELSE commit(run, w, finalData(run.rawData, run.geoCache), Status("done", 0, 0))

\* processAndSaveData from its first line up to its first await or return
processAndSaveData(run, w, rawData) ==
    LET w1 == [w EXCEPT !.isProcessing = TRUE,
                        !.loadingStatus = Status("analyzing", 0, 0),
                        !.progress = 5]
        run1 == [run EXCEPT !.rawData = rawData]
    IN  IF rowsToGeocode(rawData) = <<>>
        THEN commit(run1, w1, rawData, w1.loadingStatus)
        ELSE loopStep([run1 EXCEPT !.uniqueAddresses = uniqueAddresses(rawData),
                                   !.geoCache = EmptyCache,
                                   !.i = 0], w1)

\* faulty variant: the pacing timeout is not awaited, the next request leaves at once
afterLookupNoPacing(run, addr, resp) ==
    LET coords == geocodeAddress(resp)
        n == Len(run.uniqueAddresses)
        settled == [run EXCEPT !.inflight = @ \ {addr},
                               !.geoCache = IF coords.ok THEN (addr :> coords) @@ @ ELSE @,
                               !.results = Append(@, [addr |-> addr, coords |-> coords]),
                               !.pc = "delay"]
    IN  IF run.i + 1 < n
        THEN callGeocode([settled EXCEPT !.i = @ + 1], run.uniqueAddresses[run.i + 2])
        ELSE settled

\* faulty variant: a failed lookup rejects and ends processAndSaveData
afterLookupRethrows(run, addr, resp) ==
    LET coords == geocodeAddress(resp)
    IN  [run EXCEPT !.inflight = @ \ {addr},
                    !.geoCache = IF coords.ok THEN (addr :> coords) @@ @ ELSE @,
                    !.results = Append(@, [addr |-> addr, coords |-> coords]),
                    !.pc = IF coords.ok THEN "delay" ELSE "failed"]

\* if (coords) geoCache[addr] = coords; await new Promise(r => setTimeout(r, 1100))
afterLookup(run, addr, resp) ==
    LET coords == geocodeAddress(resp)
    IN  [run EXCEPT !.inflight = @ \ {addr},
                    !.geoCache = IF coords.ok THEN (addr :> coords) @@ @ ELSE @,
                    !.results = Append(@, [addr |-> addr, coords |-> coords]),
                    !.pc = "delay"]

\* faulty variant: the catch block also empties the record set
decodeFailedClearsData(run, w) ==
    [run |-> [run EXCEPT !.pc = "failed"],
     w |-> [w EXCEPT !.isProcessing = FALSE, !.data = <<>>]]

\* catch (err) { console.error(...); setIsProcessing(false); }
decodeFailed(run, w) ==
    [run |-> [run EXCEPT !.pc = "failed"],
     w |-> [w EXCEPT !.isProcessing = FALSE]]

(* ------------------------------- actions ------------------------------- *)
\* onChange of the file input; FileReader.readAsArrayBuffer starts
HandleFileUpload ==
    \E hasFile \in BOOLEAN :
        IF hasFile
        THEN /\ uploads < MaxUploads
             /\ uploads' = uploads + 1
             /\ isProcessing' = TRUE
             /\ runs' = [runs EXCEPT ![uploads + 1].pc = "reading"]
             /\ UNCHANGED <<data, loadingStatus, progress, filters, harness>>
        ELSE UNCHANGED vars

\* reader.onload, XLSX.read or sheet_to_json throws
DecodeFails(r) ==
    /\ runs[r].pc = "reading"
    /\ Apply(r, decodeFailed(runs[r], World))

\* reader.onload, the sheet decodes: normalization, then processAndSaveData;
\* sheets are the normalized record lists the sheet can give
ReaderLoads(r, sheets) ==
    /\ runs[r].pc = "reading"
    /\ \E rawData \in sheets :
           Apply(r, processAndSaveData(runs[r], World, rawData))

ReaderOnload(r) == ReaderLoads(r, NormalizedSheets)

\* the awaited geocodeAddress settles
GeocodeSettles(r) ==
    /\ runs[r].pc = "fetch"
    /\ \E addr \in runs[r].inflight, resp \in Responses :
           /\ runs' = [runs EXCEPT ![r] = afterLookup(runs[r], addr, resp)]
           /\ UNCHANGED <<data, isProcessing, loadingStatus, progress, uploads,
                          filters, harness>>

\* the pacing timeout fires: i++ and the next turn of the loop
PacingElapses(r) ==
    /\ runs[r].pc = "delay"
    /\ Apply(r, loopStep([runs[r] EXCEPT !.i = @ + 1], World))

\* the timeout set at commit fires: setIsProcessing(false)
SwitchOff(r) ==
    /\ runs[r].pc = "timer"
    /\ isProcessing' = FALSE
    /\ runs' = [runs EXCEPT ![r].pc = "end"]
    /\ UNCHANGED <<data, loadingStatus, progress, uploads, filters, harness>>

Next ==
    \/ HandleFileUpload
    \/ \E r \in RunIds : DecodeFails(r)
    \/ \E r \in RunIds : ReaderOnload(r)
    \/ \E r \in RunIds : GeocodeSettles(r)
    \/ \E r \in RunIds : PacingElapses(r)
    \/ \E r \in RunIds : SwitchOff(r)

Spec == Init /\ [][Next]_vars

(* ------------------------------- claims -------------------------------- *)
Count(x, seq) == Cardinality({i \in 1..Len(seq) : seq[i] = x})

Committed(r) == runs[r].commits > 0

Enriching(r) == runs[r].pc \in {"fetch", "delay"}

Paired(d) == (d.latitude = Null) <=> (d.longitude = Null)

\* the candidate addresses of run r, by the loop's own selection
CandidateAddresses(r) ==
    {runs[r].rawData[i].address :
        i \in {j \in 1..Len(runs[r].rawData) : IsCandidate(runs[r].rawData[j])}}

\* C1: in every normalized record list and in the record set, latitude is
\* null exactly when longitude is null.
C1_PairedCoordinates ==
    /\ \A i \in 1..Len(data) : Paired(data[i])
    /\ \A r \in RunIds :
           /\ \A i \in 1..Len(runs[r].rawData) : Paired(runs[r].rawData[i])
           /\ \A i \in 1..Len(runs[r].saved) : Paired(runs[r].saved[i])

\* C2: a run never looks an address up twice, looks up candidate addresses
\* only, and once it has committed it has looked up every distinct candidate
\* address exactly once.
C2_OneCallPerAddress ==
    \A r \in RunIds :
        /\ \A j \in 1..Len(runs[r].lookups) :
               /\ runs[r].lookups[j] \in CandidateAddresses(r)
               /\ Count(runs[r].lookups[j], runs[r].lookups) = 1
        /\ Committed(r) =>
               /\ \A a \in CandidateAddresses(r) : Count(a, runs[r].lookups) = 1
               /\ Len(runs[r].lookups) = Cardinality(CandidateAddresses(r))

\* a committed run in which two candidate records shared its only address
C2_Witness ==
    \E r \in RunIds :
        /\ Committed(r)
        /\ Len(rowsToGeocode(runs[r].rawData)) = 2
        /\ Cardinality(CandidateAddresses(r)) = 1
        /\ Len(runs[r].lookups) = 1

\* C3: a run has at most one lookup outstanding, and a step that issues a
\* lookup starts from a state of that run with no lookup outstanding and,
\* unless it is the run's first lookup, with the run waiting in the pacing
\* delay that this step ends.
C3_SequentialPaced ==
    /\ [](\A r \in RunIds : Cardinality(runs[r].inflight) <= 1)
    /\ [][\A r \in RunIds :
              Len(runs'[r].lookups) > Len(runs[r].lookups) =>
                  /\ Len(runs'[r].lookups) = Len(runs[r].lookups) + 1
                  /\ runs[r].inflight = {}
                  /\ Len(runs[r].results) = Len(runs[r].lookups)
                  /\ (runs[r].lookups # <<>> => runs[r].pc = "delay")]_vars

\* the second lookup of a run is outstanding, the first has settled
C3_Witness ==
    \E r \in RunIds :
        /\ Len(runs[r].lookups) = 2
        /\ Len(runs[r].results) = 1
        /\ runs[r].inflight = {runs[r].lookups[2]}

\* C4: a rejected fetch, a non-2xx status and an empty list give no
\* coordinates; a run with such a lookup keeps no cache entry for that address,
\* goes on (it is waiting, looking up, or has committed), and when it has
\* committed it has looked up every distinct address and the records of the
\* failed address are as they were.
C4_FailureDoesNotAbort ==
    /\ \A resp \in Responses : resp.kind # "first" => geocodeAddress(resp) = NoCoords
    /\ \A r \in RunIds :
           \A j \in 1..Len(runs[r].results) :
               ~runs[r].results[j].coords.ok =>
                   /\ runs[r].results[j].addr \notin DOMAIN runs[r].geoCache
                   /\ runs[r].pc \in {"fetch", "delay", "timer", "end"}
                   /\ runs[r].pc \in {"timer", "end"} =>
                          /\ runs[r].commits = 1
                          /\ Len(runs[r].results) = Len(runs[r].uniqueAddresses)
                          /\ \A a \in CandidateAddresses(r) : Count(a, runs[r].lookups) = 1
                          /\ \A i \in 1..Len(runs[r].rawData) :
                                 runs[r].rawData[i].address = runs[r].results[j].addr =>
                                     runs[r].saved[i] = runs[r].rawData[i]

\* a committed run whose first lookup failed and whose second address was
\* looked up and resolved after it
C4_Witness ==
    \E r \in RunIds :
        /\ runs[r].pc \in {"timer", "end"}
        /\ Len(runs[r].results) = 2
        /\ ~runs[r].results[1].coords.ok
        /\ runs[r].results[2].coords.ok
        /\ data = runs[r].saved

\* C5: no two runs are in their enrichment loop at the same time.
C5_OneActiveRun ==
    \A r1, r2 \in RunIds : r1 # r2 => ~(Enriching(r1) /\ Enriching(r2))

\* C6: the step in which a decode throws leaves the record set as it was,
\* and a run whose decode threw has issued no lookup and committed nothing.
C6_DecodeFailureCommitsNothing ==
    /\ [][\A r \in RunIds :
              (runs[r].pc = "reading" /\ runs'[r].pc = "failed") => data' = data]_vars
    /\ [](\A r \in RunIds :
              runs[r].pc = "failed" =>
                  /\ runs[r].lookups = <<>>
                  /\ runs[r].inflight = {}
                  /\ runs[r].commits = 0)

\* a decode has thrown while a record set from an earlier upload is loaded
C6_Witness ==
    \E r \in RunIds : runs[r].pc = "failed" /\ data # <<>>

Ended(r) == runs[r].pc \in {"none", "end", "failed"}

\* every upload but one has not started or has wholly ended
Alone == \E r \in RunIds : \A q \in RunIds \ {r} : Ended(q)

\* C7: progress stays in 0..100, is 100 after a commit, and does not decrease
\* across a step that starts and ends with the processing indicator on; the
\* last is asked only of steps taken while no other upload is under way, so
\* that overlapping uploads are not what refutes it.
C7_ProgressMonotone ==
    /\ [](progress \in 0..100)
    /\ [][(isProcessing /\ isProcessing' /\ Alone) => progress' >= progress]_vars
    /\ [][\A r \in RunIds : runs'[r].commits > runs[r].commits => progress' = 100]_vars

NumericCoords(c) == c.ok /\ c.lat.t = "number" /\ c.lon.t = "number"

\* C8: in a committed run, every candidate record whose address a lookup
\* resolved to numeric coordinates carries exactly those coordinates.
C8_ResolvedCoordinatesMerged ==
    \A r \in RunIds :
        Committed(r) =>
            \A j \in 1..Len(runs[r].results) :
                NumericCoords(runs[r].results[j].coords) =>
                    \A i \in 1..Len(runs[r].rawData) :
                        (/\ IsCandidate(runs[r].rawData[i])
                         /\ runs[r].rawData[i].address = runs[r].results[j].addr) =>
                            /\ runs[r].saved[i].latitude = runs[r].results[j].coords.lat
                            /\ runs[r].saved[i].longitude = runs[r].results[j].coords.lon

\* two candidate records of one address, both merged with the resolved pair
C8_Witness ==
    \E r \in RunIds :
        /\ Committed(r)
        /\ Len(runs[r].saved) = 2
        /\ Len(rowsToGeocode(runs[r].rawData)) = 2
        /\ runs[r].saved[1].address = runs[r].saved[2].address
        /\ runs[r].saved[1].latitude = Num(35)
        /\ runs[r].saved[2].latitude = Num(35)
        /\ runs[r].saved[2].longitude = Num(129)

HoldsCoordinate(d) == d.latitude # Null \/ d.longitude # Null

WithoutCoords(d) == [d EXCEPT !.latitude = Null, !.longitude = Null]

\* C9: a committed run hands over as many records as it was given, in the
\* same order and equal in every field but latitude and longitude, and every
\* record outside the candidate set or already holding a coordinate value is
\* handed over unchanged.
C9_EnrichmentFrame ==
    \A r \in RunIds :
        Committed(r) =>
            /\ Len(runs[r].saved) = Len(runs[r].rawData)
            /\ \A i \in 1..Len(runs[r].rawData) :
                   /\ WithoutCoords(runs[r].saved[i]) = WithoutCoords(runs[r].rawData[i])
                   /\ (~IsCandidate(runs[r].rawData[i]) \/ HoldsCoordinate(runs[r].rawData[i])) =>
                          runs[r].saved[i] = runs[r].rawData[i]

\* a record the claim lets a lookup be issued for
Qualifies(d) ==
    /\ d.latitude = Null
    /\ d.longitude = Null
    /\ d.address # Dash
    /\ Len(d.address) > AddressMinLen

\* C10: every address a run looks up is the address of a record with both
\* coordinates absent, not the placeholder and longer than 5 characters; a
\* run none of whose records qualifies issues no lookup.
C10_LookupOnlyForQualified ==
    \A r \in RunIds :
        /\ \A j \in 1..Len(runs[r].lookups) :
               \E i \in 1..Len(runs[r].rawData) :
                   /\ runs[r].rawData[i].address = runs[r].lookups[j]
                   /\ Qualifies(runs[r].rawData[i])
        /\ (/\ runs[r].pc \in {"fetch", "delay", "timer", "end"}
            /\ \A i \in 1..Len(runs[r].rawData) : ~Qualifies(runs[r].rawData[i])) =>
               (runs[r].lookups = <<>> /\ Committed(r))

(* ------------------------------ claim C11 ------------------------------ *)
IsNaN(v) == v.t = "NaN"

\* C11: when the first result of the geocode service carries a lat or lon
\* that is not a numeric string, the lookup counts as failed, the records of
\* that address keep null coordinates and no NaN coordinate is ever stored
\* in a record.
C11_NoNaNStored ==
    \A i \in 1..Len(data) :
        ~IsNaN(data[i].latitude) /\ ~IsNaN(data[i].longitude)

(* --------------------------- aggregation views ------------------------- *)
\* The views are functions of the record set and the two filters, as the
\* useMemo hooks are. Amounts are integers here, so sums are exact. A plain
\* object used as a map is read through its own keys only: names that
\* Object.prototype also carries are not among the inputs.

RECURSIVE SumOver(_, _)
\* f[1] + ... + f[n]
SumOver(f, n) == IF n = 0 THEN 0 ELSE SumOver(f, n - 1) + f[n]

\* Array.prototype.sort with a comparator that compares the field ord:
\* ascending, elements with equal ord keep their order
sortByOrd(es) ==
    LET n == Len(es)
        pos(i) ==
            Cardinality({j \in 1..n : \/ es[j].ord < es[i].ord
                                      \/ es[j].ord = es[i].ord /\ j < i}) + 1
    IN  [p \in 1..n |-> es[CHOOSE i \in 1..n : pos(i) = p]]

\* xs.sort((a, b) => a - b) on numbers
sortNumbers(xs) ==
    LET s == sortByOrd([i \in 1..Len(xs) |-> [ord |-> xs[i]]])
    IN  [i \in 1..Len(xs) |-> s[i].ord]

\* a property name that is a canonical array index: "0", "7", "10", not "07"
IsIndexKey(cs) ==
    /\ cs # <<>>
    /\ \A i \in 1..Len(cs) : IsDigit(cs[i])
    /\ Len(cs) = 1 \/ cs[1] # "0"

IsNameKey(cs) == ~IsIndexKey(cs)

\* The order in which Object.entries and Object.values walk the keys that
\* were created in the order ks: array indices first in ascending numeric
\* order, then the other names in the order of their creation.
ownKeys(ks) ==
    LET idx == SelectSeq(ks, IsIndexKey)
        s == sortByOrd([i \in 1..Len(idx) |->
                            [key |-> idx[i], ord |-> DigitsToNat(idx[i], 0)]])
    IN  [i \in 1..Len(idx) |-> s[i].key] \o SelectSeq(ks, IsNameKey)

\* stats.years
years(rows) == sortNumbers(ArrayFromSet([i \in 1..Len(rows) |-> rows[i].year]))

\* availableMonths
availableMonths(rows, year) ==
    LET InYear(d) == d.year = year
        relevantData == IF year = 0 THEN rows ELSE SelectSeq(rows, InYear)
    IN  sortNumbers(ArrayFromSet([i \in 1..Len(relevantData) |-> relevantData[i].month]))

\* faulty variant: the month filter is ignored
filteredDataYearOnly(rows, year, month) ==
    LET Match(d) == year = 0 \/ d.year = year
    IN  SelectSeq(rows, Match)

filteredData(rows, year, month) ==
    LET Match(d) ==
            LET yearMatch == year = 0 \/ d.year = year
                monthMatch == month = 0 \/ d.month = month
            IN  yearMatch /\ monthMatch
    IN  SelectSeq(rows, Match)

\* the catch-all name: gi-ta
Others == <<"#gi", "#ta">>

\* faulty variant: the placeholder is kept as a name
entityNameRaw(name) == IF name # <<>> THEN name ELSE Others

\* d.designer && d.designer !== '-' ? d.designer : Others
entityName(name) == IF name # <<>> /\ name # Dash THEN name ELSE Others

\* Object.entries(map) after  map[names[i]] = (map[names[i]] || 0) + amounts[i]
\* for every i
tally(names, amounts) ==
    LET keys == ownKeys(ArrayFromSet(names))
        share(key) == [i \in 1..Len(names) |-> IF names[i] = key THEN amounts[i] ELSE 0]
    IN  [k \in 1..Len(keys) |->
            [name |-> keys[k], amount |-> SumOver(share(keys[k]), Len(names))]]

TopN == 5

\* entries.sort((a, b) => b[1] - a[1]).slice(0, 5)
top(entries) ==
    LET s == sortByOrd([i \in 1..Len(entries) |->
                            [name |-> entries[i].name, amount |-> entries[i].amount,
                             ord |-> -entries[i].amount]])
        n == IF Len(s) < TopN THEN Len(s) ELSE TopN
    IN  [i \in 1..n |-> [name |-> s[i].name, amount |-> s[i].amount]]

\* faulty variant: every record counts as a site
summaryCountsRecords(rows, year, month) ==
    LET fd == filteredData(rows, year, month)
        n == Len(fd)
        amounts == [i \in 1..n |-> fd[i].spec_amount]
    IN  [siteCount |-> n,
         totalSpec |-> SumOver(amounts, n),
         top3Cons |-> top(tally([i \in 1..n |-> entityName(fd[i].constructor)], amounts)),
         top3Des |-> top(tally([i \in 1..n |-> entityName(fd[i].designer)], amounts))]

summary(rows, year, month) ==
    LET fd == filteredData(rows, year, month)
        n == Len(fd)
        amounts == [i \in 1..n |-> fd[i].spec_amount]
        uniqueProjects == {fd[i].project_name : i \in 1..n}
    IN  [siteCount |-> Cardinality(uniqueProjects),
         totalSpec |-> SumOver(amounts, n),
         top3Cons |-> top(tally([i \in 1..n |-> entityName(fd[i].constructor)], amounts)),
         top3Des |-> top(tally([i \in 1..n |-> entityName(fd[i].designer)], amounts))]

\* the label suffixes of the year and month series: nyeon, wol
YearSuffix == <<"#nyeon">>
MonthSuffix == <<"#wol">>

\* faulty variant: the year series is built from the filtered records
yearTrendFiltered(rows, year, month) ==
    LET fd == filteredData(rows, year, month)
        ys == years(fd)
        share(y) == [i \in 1..Len(fd) |-> IF fd[i].year = y THEN fd[i].spec_amount ELSE 0]
    IN  [k \in 1..Len(ys) |->
            [label |-> ToStringJS(Num(ys[k])) \o YearSuffix,
             value |-> SumOver(share(ys[k]), Len(fd))]]

\* Object.entries(yearTrendMap).sort(by Number(key)): the keys are the
\* distinct years, so the sort leaves them ascending whatever order
\* Object.entries walks them in
yearTrend(rows, year, month) ==
    LET ys == years(rows)
        share(y) == [i \in 1..Len(rows) |-> IF rows[i].year = y THEN rows[i].spec_amount ELSE 0]
    IN  [k \in 1..Len(ys) |->
            [label |-> ToStringJS(Num(ys[k])) \o YearSuffix,
             value |-> SumOver(share(ys[k]), Len(rows))]]

\* yr in trends
referenceYear(rows, year) ==
    LET ys == years(rows)
    IN  IF year # 0 THEN year
        ELSE IF ys = <<>> THEN 0
        ELSE ys[Len(ys)]

MonthsInYear == 12

\* faulty variant: only the months that have records get an entry
monthTrendSparse(rows, year) ==
    LET yr == referenceYear(rows, year)
        share(m) == [i \in 1..Len(rows) |->
                        IF rows[i].year = yr /\ rows[i].month = m
                        THEN rows[i].spec_amount ELSE 0]
        InYr(d) == d.year = yr /\ d.month \in 1..MonthsInYear
        ms == availableMonths(SelectSeq(rows, InYr), 0)
    IN  [k \in 1..Len(ms) |->
            [label |-> NatToChars(ms[k]) \o MonthSuffix,
             value |-> SumOver(share(ms[k]), Len(rows))]]

\* faulty variant: the records of every year are counted
monthTrendAllYears(rows, year) ==
    LET share(m) == [i \in 1..Len(rows) |->
                        IF rows[i].month = m THEN rows[i].spec_amount ELSE 0]
    IN  [m \in 1..MonthsInYear |->
            [label |-> NatToChars(m) \o MonthSuffix,
             value |-> SumOver(share(m), Len(rows))]]

\* faulty variant: the months are counted from 0
monthTrendFromZero(rows, year) ==
    LET yr == referenceYear(rows, year)
        share(m) == [i \in 1..Len(rows) |->
                        IF rows[i].year = yr /\ rows[i].month = m
                        THEN rows[i].spec_amount ELSE 0]
    IN  [m \in 1..MonthsInYear |->
            [label |-> NatToChars(m - 1) \o MonthSuffix,
             value |-> SumOver(share(m - 1), Len(rows))]]

\* Array.from({length: 12}, (_, i) => ({label, value: monthTrendMap[i + 1] || 0}))
monthTrend(rows, year) ==
    LET yr == referenceYear(rows, year)
        share(m) == [i \in 1..Len(rows) |->
                        IF rows[i].year = yr /\ rows[i].month = m
                        THEN rows[i].spec_amount ELSE 0]
    IN  [m \in 1..MonthsInYear |->
            [label |-> NatToChars(m) \o MonthSuffix,
             value |-> SumOver(share(m), Len(rows))]]

designerTrend(rows, year, month) ==
    LET fd == filteredData(rows, year, month)
        n == Len(fd)
        t == top(tally([i \in 1..n |-> entityName(fd[i].designer)],
                       [i \in 1..n |-> fd[i].spec_amount]))
    IN  [i \in 1..Len(t) |-> [label |-> t[i].name, value |-> t[i].amount]]

trends(rows, year, month) ==
    [yearTrend |-> yearTrend(rows, year, month),
     monthTrend |-> monthTrend(rows, year),
     designerTrend |-> designerTrend(rows, year, month)]

\* the group a project's first record opens
newGroup(d) ==
    [name |-> d.project_name, address |-> d.address,
     latitude |-> d.latitude, longitude |-> d.longitude,
     designer |-> d.designer, constructor |-> d.constructor,
     progress |-> d.progress, specs |-> <<>>, totalAmount |-> 0]

\* faulty variant: the total takes the amount of the last line item
addSpecLast(g, d) ==
    [g EXCEPT !.specs = Append(@, [product |-> d.product_name,
                                   quantity |-> d.quantity,
                                   amount |-> d.spec_amount]),
              !.totalAmount = d.spec_amount]

\* specs.push(...); totalAmount += d.spec_amount
addSpec(g, d) ==
    [g EXCEPT !.specs = Append(@, [product |-> d.product_name,
                                   quantity |-> d.quantity,
                                   amount |-> d.spec_amount]),
              !.totalAmount = @ + d.spec_amount]

RECURSIVE fillGroupLast(_, _, _)
\* faulty variant: every record of the project overwrites the group's fields
fillGroupLast(fd, n, name) ==
    IF n = 0 THEN [name |-> <<>>, open |-> FALSE]
    ELSE LET g == fillGroupLast(fd, n - 1, name)
             d == fd[n]
         IN  IF d.project_name # name THEN g
             ELSE IF g.open
                  THEN [g EXCEPT !.v = addSpec([newGroup(d) EXCEPT
                                                    !.specs = g.v.specs,
                                                    !.totalAmount = g.v.totalAmount], d)]
             ELSE [name |-> name, open |-> TRUE, v |-> addSpec(newGroup(d), d)]

RECURSIVE fillGroup(_, _, _)
\* the group of project name after the records fd[1..n]
fillGroup(fd, n, name) ==
    IF n = 0 THEN [name |-> <<>>, open |-> FALSE]
    ELSE LET g == fillGroup(fd, n - 1, name)
             d == fd[n]
         IN  IF d.project_name # name THEN g
             ELSE IF g.open THEN [g EXCEPT !.v = addSpec(@, d)]
             ELSE [name |-> name, open |-> TRUE, v |-> addSpec(newGroup(d), d)]

groupedProjects(rows, year, month) ==
    LET fd == filteredData(rows, year, month)
        keys == ownKeys(ArrayFromSet([i \in 1..Len(fd) |-> fd[i].project_name]))
    IN  [k \in 1..Len(keys) |-> fillGroup(fd, Len(fd), keys[k]).v]

\* faulty variant: a group counts as missing only when it lacks both values
projectsWithNoCoordsBoth(rows, year, month) ==
    LET LacksBoth(p) == ~Truthy(p.latitude) /\ ~Truthy(p.longitude)
    IN  SelectSeq(groupedProjects(rows, year, month), LacksBoth)

\* groupedProjects.filter(p => !p.latitude || !p.longitude)
projectsWithNoCoords(rows, year, month) ==
    SelectSeq(groupedProjects(rows, year, month), MissingCoord)

HasCoords(p) == Truthy(p.latitude) /\ Truthy(p.longitude)

\* the groups that get a marker on the map
markers(rows, year, month) ==
    SelectSeq(groupedProjects(rows, year, month), HasCoords)

(* ------------------------------ claim C12 ------------------------------ *)
\* the lookup of address a in run r came back without coordinates; an empty
\* result array, a status that is not ok and a rejected fetch all end so
FailedLookup(r, a) ==
    \E j \in 1..Len(runs[r].results) :
        runs[r].results[j].addr = a /\ ~runs[r].results[j].coords.ok

\* record d of run r was a candidate whose lookup failed
Unresolved(r, d) ==
    \E i \in 1..Len(runs[r].rawData) :
        /\ runs[r].rawData[i].id = d.id
        /\ IsCandidate(runs[r].rawData[i])
        /\ FailedLookup(r, d.address)

\* ... and it had neither coordinate before
UnresolvedBare(r, d) ==
    \E i \in 1..Len(runs[r].rawData) :
        /\ runs[r].rawData[i].id = d.id
        /\ IsCandidate(runs[r].rawData[i])
        /\ ~HoldsCoordinate(runs[r].rawData[i])
        /\ FailedLookup(r, d.address)

FirstOfProject(rows, k) ==
    \A j \in 1..(k - 1) : rows[j].project_name # rows[k].project_name

GroupNames(gs) == {gs[k].name : k \in 1..Len(gs)}

MaxCellLen == 3

CellChars == {"1", "0", "-", ".", " ", "a"}

CellTexts == UNION {[1..n -> CellChars] : n \in 0..MaxCellLen}

\* what is left of a cell text behind its first decimal point, within the
\* characters parseNum keeps
RECURSIVE AfterPoint(_)
AfterPoint(cs) ==
    IF cs = <<>> THEN <<>>
    ELSE IF Head(cs) = "." THEN DigitPrefix(Tail(cs))
    ELSE AfterPoint(Tail(cs))

\* the value parseNum reads from the text is an integer
IntegerValued(cs) ==
    LET frac == AfterPoint(SelectSeq(cs, IsNumChar))
    IN  \A i \in 1..Len(frac) : frac[i] = "0"

\* the raw cell values sheet_to_json hands to getVal: absent, null, numbers
\* of either sign, texts
CellValues ==
    {Undefined, Null, Num(-5), Num(0), Num(7), Num(1200)}
        \cup {Str(cs) : cs \in {t \in CellTexts : IntegerValued(t)}}

NameKey == <<"#hyeon", "#jang", "#myeong">>
AmountKey == <<"#hap", "#gye">>

\* the project name cells of a raw row; Undefined stands for a row without one
NameCells ==
    {Undefined, Null, Str(<<>>), Str(<<" ">>), Str(<<" ", " ">>), Str(<<"A">>),
     Str(<<" ", "B">>), Num(0), Num(7)}

\* the cells of a raw row besides its project name
RestOfRow ==
    {<<>>,
     <<Cell(AmountKey, Str(<<"a">>))>>,
     <<Cell(<<"#ju", "#so">>, Str(Incheon)), Cell(AmountKey, Num(-5))>>}

NamedRow(name, rest) ==
    IF name = Undefined THEN rest ELSE <<Cell(NameKey, name)>> \o rest

NameRows == {NamedRow(name, rest) : name \in NameCells, rest \in RestOfRow}

NameSheets == UNION {[1..n -> NameRows] : n \in 0..MaxRows}

\* a call of f, or its return: seq holds a sheet, a raw row or a record
\* list, val a cell value or a number, aliases the alias list of getVal
CallWith(f, seq, val, aliases) == [f |-> f, seq |-> seq, val |-> val, aliases |-> aliases]
Call(f, seq, val) == CallWith(f, seq, val, <<>>)

\* the most keys a raw row of KeyedRows has
MaxKeys == 3

\* Column headers as sheets carry them: upper case, blanks and punctuation
\* around names the alias lists know, and two headers no list knows.
HeaderPool ==
    << <<"P", "J", "T">>,
       <<"p", "r", "o", "j", "e", "c", "t">>,
       <<" ", "P", "r", "o", "j", "e", "c", "t", "-", "N", "A", "M", "E", ":">>,
       <<"#hyeon", "#jang", " ", "#myeong">>,
       <<"Y", "e", "a", "r", ".">>,
       <<"N", "a", "m", "e">>,
       <<"#ju", "#so", "2">> >>

\* the raw rows of up to MaxKeys different headers of HeaderPool, in every
\* order; the cell under header number h holds the number h
KeyedRows ==
    LET Injective(f) == \A a \in DOMAIN f : \A b \in DOMAIN f : f[a] = f[b] => a = b
        picks == UNION {{f \in [1..n -> 1..Len(HeaderPool)] : Injective(f)} : n \in 0..MaxKeys}
    IN  {[i \in 1..Len(f) |-> Cell(HeaderPool[f[i]], Num(f[i]))] : f \in picks}

Reverse(seq) == [i \in 1..Len(seq) |-> seq[Len(seq) + 1 - i]]

\* alias lists of the handler, one of them also back to front
AliasLists ==
    {Aliases_project_name, Reverse(Aliases_project_name), Aliases_year, Aliases_address}

FnInit ==
    /\ Mounted
    /\ arg \in {Call("parsed", json, Undefined) : json \in NameSheets}
                \cup {Call("parseNum", <<>>, val) : val \in CellValues}
                \cup {CallWith("getVal", row, Undefined, aliases) :
                          row \in KeyedRows, aliases \in AliasLists}
    /\ ret = Idle

\* json.map(...).filter(r => r.project_name) applied to the sheet drawn
CallParsed ==
    /\ arg.f = "parsed"
    /\ ret = Idle
    /\ ret' = Call("parsed", parsed(arg.seq), Undefined)
    /\ UNCHANGED <<data, isProcessing, loadingStatus, progress, runs, uploads,
                   filters, arg>>

\* parseNum applied to the cell value drawn
CallParseNum ==
    /\ arg.f = "parseNum"
    /\ ret = Idle
    /\ ret' = Call("parseNum", <<>>, Num(parseNum(arg.val)))
    /\ UNCHANGED <<data, isProcessing, loadingStatus, progress, runs, uploads,
                   filters, arg>>

\* getVal applied to the raw row and the alias list drawn
CallGetVal ==
    /\ arg.f = "getVal"
    /\ ret = Idle
    /\ ret' = Call("getVal", <<>>, getVal(arg.seq, arg.aliases))
    /\ UNCHANGED <<data, isProcessing, loadingStatus, progress, runs, uploads,
                   filters, arg>>

FnNext == CallParsed \/ CallParseNum \/ CallGetVal

FnSpec == FnInit /\ [][FnNext]_vars

(* ------------------------------ claim C13 ------------------------------ *)
IsBlank(cs) == \A i \in 1..Len(cs) : IsSpace(cs[i])

\* the project name of a raw row is absent, empty, or blank after trimming
ResolvesEmpty(row) ==
    LET name == getVal(row, Aliases_project_name)
    IN  \/ name \in {Undefined, Null}
        \/ name.t = "string" /\ IsBlank(name.s)

\* C13: normalization drops exactly the raw rows whose project_name
\* resolves to empty (absent, empty, or blank after trimming) and keeps every
\* other row, in order, so every record has a non-empty project_name.
C13_DropsExactlyUnnamedRows ==
    ret.f = "parsed" =>
        LET json == arg.seq
            kept == SelectSeq([i \in 1..Len(json) |-> [id |-> i - 1, row |-> json[i]]],
                              LAMBDA e : ~ResolvesEmpty(e.row))
        IN  /\ Len(ret.seq) = Len(kept)
            /\ \A k \in 1..Len(ret.seq) :
                   /\ ret.seq[k].id = kept[k].id
                   /\ ~IsBlank(ret.seq[k].project_name)

(* ------------------------------ claim C14 ------------------------------ *)
HasDigit(cs) == \E i \in 1..Len(cs) : IsDigit(cs[i])

\* C14: for every raw cell value parseNum returns a number that is not NaN,
\* is 0 for a text without a digit and is never negative, so quantity and
\* spec_amount of every record are non-negative.
C14_ToNumberNonNegative ==
    /\ ret.f = "parseNum" =>
           /\ ret.val.t = "number"
           /\ ret.val.n >= 0
           /\ (arg.val.t = "string" /\ ~HasDigit(arg.val.s)) => ret.val = Num(0)
    /\ ret.f = "parsed" =>
           \A k \in 1..Len(ret.seq) :
               ret.seq[k].quantity >= 0 /\ ret.seq[k].spec_amount >= 0

(* ------------------- the dashboard over a loaded sheet ------------------ *)
YearKey == <<"#yeon", "#do">>
MonthKey == <<"#wol">>
DesignerKey == <<"#seol", "#gye", "#sa">>
ConstructorKey == <<"#geon", "#seol", "#sa">>
ProjectKey == <<"P", "J", "T">>

\* a raw row of the spec ledger; no address, so no lookup is made for it
Line(project, year, month, designer, builder, amount) ==
    << Cell(ProjectKey, project), Cell(YearKey, year), Cell(MonthKey, month),
       Cell(DesignerKey, designer), Cell(ConstructorKey, builder),
       Cell(AmountKey, amount) >>

\* Two rows of project A with 500 and 700; three years; a row without a
\* month; three builders with 300 each, the last of them named by a number;
\* seven builder names in all, counting the placeholder and the absent one.
AggRows ==
    << Line(Str(<<"A">>), Num(2024), Num(5), Str(<<"X">>), Str(<<"K">>), Num(500)),
       Line(Str(<<"A">>), Num(2024), Num(6), Str(<<"X">>), Str(<<"L">>), Num(700)),
       Line(Str(<<"B">>), Num(2023), Num(5), Str(<<"Y">>), Str(<<"M">>), Num(300)),
       Line(Str(<<"C">>), Num(2024), Undefined, Str(Dash), Str(<<"N">>), Num(300)),
       Line(Str(<<"D">>), Num(2023), Num(12), Str(<<"Y">>), Num(7), Str(<<"3", "0", "0">>)),
       Line(Str(<<"E">>), Num(2024), Num(5), Str(<<"X">>), Undefined, Num(100)),
       Line(Num(10), Num(2022), Num(1), Str(<<"Z">>), Str(Dash), Num(0)),
       Line(Str(<<"F">>), Num(2024), Num(6), Str(<<"Y">>), Str(<<"P">>), Num(200)) >>

\* the sheets made of some of the rows of AggRows, in their order
AggSheets ==
    {SelectSeq([i \in 1..Len(AggRows) |-> [i |-> i, row |-> AggRows[i]]],
               LAMBDA e : e.i \in pick) : pick \in SUBSET (1..Len(AggRows))}

RowsOf(es) == [k \in 1..Len(es) |-> es[k].row]

\* the record lists reader.onload makes of them
AggRecordSets == {parsed(RowsOf(es)) : es \in AggSheets}

\* The dashboard after one upload has run to its end: processAndSaveData
\* found nothing to look up, committed the records and the timer has
\* switched the overlay off.
AggInit ==
    \E rows \in AggRecordSets :
        LET res == processAndSaveData([NewRun EXCEPT !.pc = "reading"],
                                      [data |-> <<>>, isProcessing |-> TRUE,
                                       loadingStatus |-> Status("", 0, 0),
                                       progress |-> 0],
                                      rows)
        IN  /\ data = res.w.data
            /\ isProcessing = FALSE
            /\ loadingStatus = res.w.loadingStatus
            /\ progress = res.w.progress
            /\ runs = [r \in RunIds |-> IF r = 1 THEN [res.run EXCEPT !.pc = "end"]
                                                 ELSE NewRun]
            /\ uploads = 1
            /\ selectedYear = 0
            /\ selectedMonth = 0
            /\ arg = Idle
            /\ ret = Idle

\* the options of a select: the "all" option 0, then the values listed
Options(values) == {0} \cup {values[i] : i \in 1..Len(values)}

\* onChange of the year select
SetSelectedYear ==
    \E year \in Options(years(data)) :
        /\ selectedYear' = year
        /\ UNCHANGED <<data, isProcessing, loadingStatus, progress, runs, uploads,
                       selectedMonth, harness>>

\* onChange of the month select
SetSelectedMonth ==
    \E month \in Options(availableMonths(data, selectedYear)) :
        /\ selectedMonth' = month
        /\ UNCHANGED <<data, isProcessing, loadingStatus, progress, runs, uploads,
                       selectedYear, harness>>

AggNext == SetSelectedYear \/ SetSelectedMonth

AggSpec == AggInit /\ [][AggNext]_vars

(* -------------------------- claims C15 to C20 -------------------------- *)
\* the views of the dashboard in the current state
Filtered == filteredData(data, selectedYear, selectedMonth)
Groups == groupedProjects(data, selectedYear, selectedMonth)
Summary == summary(data, selectedYear, selectedMonth)
Trends == trends(data, selectedYear, selectedMonth)

Elements(seq) == {seq[i] : i \in 1..Len(seq)}

\* record d passes the two filters
Passes(d) ==
    /\ selectedYear = 0 \/ d.year = selectedYear
    /\ selectedMonth = 0 \/ d.month = selectedMonth

\* C15: the filtered set holds exactly the records r with (filter year = 0
\* or r.year = filter year) and (filter month = 0 or r.month = filter month),
\* in their original order; with year 2024 and month 0 it holds every record
\* of 2024 whatever its month and no other record.
C15_FilterExact ==
    /\ Elements(Filtered) = {d \in Elements(data) : Passes(d)}
    /\ \A k \in 1..Len(Filtered) : \A l \in 1..Len(Filtered) :
           k < l => Filtered[k].id < Filtered[l].id
    /\ (selectedYear = 2024 /\ selectedMonth = 0) =>
           Elements(Filtered) = {d \in Elements(data) : d.year = 2024}

\* year 2024 with every month: records of three different months pass, a
\* record of another year does not; and a month filter that cuts further
C15_Witness ==
    \/ /\ selectedYear = 2024
       /\ selectedMonth = 0
       /\ Cardinality({d.month : d \in Elements(Filtered)}) = 3
       /\ Len(Filtered) < Len(data)
    \/ /\ selectedYear = 2024
       /\ selectedMonth = 5
       /\ Len(Filtered) = 2
       /\ Len(data) = Len(AggRows)

\* the line items of the filtered records of project name, in order
LineItems(name) ==
    LET Mine(d) == d.project_name = name
        mine == SelectSeq(Filtered, Mine)
    IN  [i \in 1..Len(mine) |-> [product |-> mine[i].product_name,
                                 quantity |-> mine[i].quantity,
                                 amount |-> mine[i].spec_amount]]

\* C16: grouping yields exactly one group per distinct project_name among
\* the filtered records; each filtered record contributes exactly one line
\* item to its project's group, and every group's totalAmount is the sum of
\* the amounts of its line items.
C16_GroupsPartition ==
    /\ GroupNames(Groups) = {d.project_name : d \in Elements(Filtered)}
    /\ Len(Groups) = Cardinality(GroupNames(Groups))
    /\ \A k \in 1..Len(Groups) :
           /\ Groups[k].specs = LineItems(Groups[k].name)
           /\ Groups[k].totalAmount =
                  SumOver([i \in 1..Len(Groups[k].specs) |-> Groups[k].specs[i].amount],
                          Len(Groups[k].specs))
    /\ SumOver([k \in 1..Len(Groups) |-> Len(Groups[k].specs)], Len(Groups)) = Len(Filtered)

\* two rows of one project with 500 and 700 give one group of 2 line items
\* and totalAmount 1200, next to other groups
C16_Witness ==
    /\ Len(Groups) > 2
    /\ \E k \in 1..Len(Groups) :
           /\ Len(Groups[k].specs) = 2
           /\ Groups[k].specs[1].amount = 500
           /\ Groups[k].specs[2].amount = 700
           /\ Groups[k].totalAmount = 1200

\* the entity names of the filtered records, in order
ConstructorNames == [i \in 1..Len(Filtered) |-> entityName(Filtered[i].constructor)]
DesignerNames == [i \in 1..Len(Filtered) |-> entityName(Filtered[i].designer)]

\* the sum of spec_amount of the filtered records whose entity is name
SumFor(names, name) ==
    SumOver([i \in 1..Len(Filtered) |->
                 IF names[i] = name THEN Filtered[i].spec_amount ELSE 0], Len(Filtered))

FirstSeen(names, name) == CHOOSE i \in 1..Len(names) :
                              names[i] = name /\ \A j \in 1..(i - 1) : names[j] # name

\* ranking lists the entities names with their sums as the claim describes
RankedAsClaimed(ranking, names) ==
    /\ Len(ranking) <= TopN
    /\ \A k \in 1..Len(ranking) :
           /\ ranking[k].name \in Elements(names)
           /\ ranking[k].amount = SumFor(names, ranking[k].name)
    /\ \A k \in 1..Len(ranking) : \A l \in 1..Len(ranking) :
           k < l =>
               /\ ranking[k].name # ranking[l].name
               /\ ranking[k].amount >= ranking[l].amount
               /\ ranking[k].amount = ranking[l].amount =>
                      FirstSeen(names, ranking[k].name) < FirstSeen(names, ranking[l].name)
    /\ \A name \in Elements(names) :
           (\A k \in 1..Len(ranking) : ranking[k].name # name) =>
               /\ Len(ranking) = TopN
               /\ \A k \in 1..Len(ranking) : ranking[k].amount >= SumFor(names, name)

\* C17: the constructor ranking and the designer ranking each list at most 5
\* entities with their summed spec_amount over the filtered set, in
\* descending order of sum, entities with equal sums in the order in which
\* they were first encountered; no entity left out has a larger sum than a
\* listed one.
C17_RankingOrder ==
    /\ RankedAsClaimed(Summary.top3Cons, ConstructorNames)
    /\ RankedAsClaimed(Summary.top3Des, DesignerNames)

\* the years of the record set
YearSet == {d.year : d \in Elements(data)}

YearLabel(y) == ToStringJS(Num(y)) \o YearSuffix

\* the year an entry of the year series stands for
YearOf(entry) == CHOOSE y \in YearSet : YearLabel(y) = entry.label

\* C18: the year trend has one entry per distinct year of the full record
\* set, holding the sum of spec_amount of all records of that year, in
\* ascending year order; the year and month filters do not change it.
C18_YearTrendUnfiltered ==
    LET series == Trends.yearTrend
    IN  /\ Len(series) = Cardinality(YearSet)
        /\ \A k \in 1..Len(series) :
               /\ \E y \in YearSet : YearLabel(y) = series[k].label
               /\ series[k].value =
                      SumOver([i \in 1..Len(data) |->
                                   IF data[i].year = YearOf(series[k])
                                   THEN data[i].spec_amount ELSE 0], Len(data))
        /\ \A k \in 1..Len(series) : \A l \in 1..Len(series) :
               k < l => YearOf(series[k]) < YearOf(series[l])
        /\ series = trends(data, 0, 0).yearTrend

\* three years in the series while the filters leave one record
C18_Witness ==
    /\ Len(Trends.yearTrend) = 3
    /\ selectedYear = 2023
    /\ selectedMonth = 12
    /\ Len(Filtered) = 1

\* the reference year of the month series, as the claim words it
ReferenceYear ==
    IF selectedYear # 0 THEN selectedYear
    ELSE IF YearSet = {} THEN 0
    ELSE CHOOSE y \in YearSet : \A z \in YearSet : z <= y

\* C19: the month trend always has exactly 12 entries for months 1..12 in
\* order; entry m is the sum of spec_amount of the records of the full
\* record set whose year is the reference year and whose month is m, 0 when
\* there is none; the reference year is the year filter when that is not 0
\* and the largest year of the full set otherwise; the month filter has no
\* effect.
C19_MonthTrend ==
    LET series == Trends.monthTrend
    IN  /\ Len(series) = MonthsInYear
        /\ \A m \in 1..MonthsInYear :
               /\ series[m].label = NatToChars(m) \o MonthSuffix
               /\ series[m].value =
                      SumOver([i \in 1..Len(data) |->
                                   IF data[i].year = ReferenceYear /\ data[i].month = m
                                   THEN data[i].spec_amount ELSE 0], Len(data))
        /\ series = trends(data, selectedYear, 0).monthTrend

\* no year chosen, records of 2023 and 2024, the month filter on 12, which
\* only 2023 has: the series is that of 2024, with May and June filled
C19_Witness ==
    /\ selectedYear = 0
    /\ selectedMonth = 12
    /\ {2023, 2024} \subseteq YearSet
    /\ LET series == Trends.monthTrend
       IN  /\ series[5].value = 600
           /\ series[6].value = 900
           /\ series[12].value = 0

\* C20 as stated: for an empty record set the aggregation yields project
\* count 0 and total 0, an empty constructor ranking, an empty designer
\* ranking, and empty arrays for the year, month and designer series.
C20_EmptyGivesEmptySeries ==
    data = <<>> =>
        /\ Summary.siteCount = 0
        /\ Summary.totalSpec = 0
        /\ Summary.top3Cons = <<>>
        /\ Summary.top3Des = <<>>
        /\ Trends.yearTrend = <<>>
        /\ Trends.monthTrend = <<>>
        /\ Trends.designerTrend = <<>>

\* C20, amended: for an empty record set the aggregation yields project
\* count 0 and total 0, empty constructor and designer rankings, empty year
\* and designer series, and a month series of 12 entries for the months 1
\* to 12, each with value 0.
C20_EmptyGivesZeroMonths ==
    data = <<>> =>
        /\ Summary.siteCount = 0
        /\ Summary.totalSpec = 0
        /\ Summary.top3Cons = <<>>
        /\ Summary.top3Des = <<>>
        /\ Trends.yearTrend = <<>>
        /\ Trends.designerTrend = <<>>
        /\ Groups = <<>>
        /\ LET series == Trends.monthTrend
           IN  /\ Len(series) = MonthsInYear
               /\ \A m \in 1..MonthsInYear :
                      series[m] = [label |-> NatToChars(m) \o MonthSuffix, value |-> 0]

\* an upload of a sheet without rows has committed the empty record set
C20_Witness ==
    /\ data = <<>>
    /\ uploads = 1
    /\ runs[1].commits = 1
    /\ Len(Trends.monthTrend) = MonthsInYear

(* ------------------------------ claim C21 ------------------------------ *)
\* the keys of row whose normalized form is the normalized form of an alias
MatchingKeys(row, aliases) ==
    {i \in 1..Len(row) :
        \E j \in 1..Len(aliases) : normalizeKey(row[i].k) = normalizeKey(aliases[j])}

\* C21: getVal returns the value stored under the first key, in the row's
\* key order, whose normalized form equals the normalized form of some
\* alias, whatever the order of the aliases and whatever the key's casing or
\* punctuation; it returns undefined when no key matches.
C21_FirstMatchingKey ==
    ret.f = "getVal" =>
        LET hits == MatchingKeys(arg.seq, arg.aliases)
        IN  /\ hits = {} => ret.val = Undefined
            /\ hits # {} =>
                   \E i \in hits :
                       /\ \A l \in hits : i <= l
                       /\ ret.val = arg.seq[i].v
            /\ ret.val = getVal(arg.seq, Reverse(arg.aliases))

\* a row whose second and third keys both match, through different aliases
\* listed in the other order, behind a key that matches none
C21_Witness ==
    /\ ret.f = "getVal"
    /\ arg.aliases = Aliases_project_name
    /\ Len(arg.seq) = 3
    /\ arg.seq[1].k = HeaderPool[5]
    /\ arg.seq[2].k = HeaderPool[3]
    /\ arg.seq[3].k = HeaderPool[1]
    /\ ret.val = Num(3)

(* ------------------------------ claim C22 ------------------------------ *)
\* run r commits in this step
Commits(r) == runs'[r].commits = runs[r].commits + 1

\* C22: while a run's enrichment is in progress the visible record set is
\* still the one from before the run; the run replaces it exactly once, with
\* the fully merged set, only after the last lookup and its pacing delay, so
\* the record set is never a partly enriched one.
C22_StableUntilCommit ==
    /\ [][\A r \in RunIds :
              (Enriching(r) /\ runs'[r].pc \in {"fetch", "delay"}) => data' = data]_vars
    /\ [][data' # data =>
              \E r \in RunIds :
                  /\ Commits(r)
                  /\ runs[r].pc \in {"reading", "delay"}
                  /\ Len(runs'[r].results) = Len(runs'[r].uniqueAddresses)
                  /\ runs'[r].inflight = {}
                  /\ data' = finalData(runs'[r].rawData, runs'[r].geoCache)]_vars
    /\ [](\A r \in RunIds : runs[r].commits <= 1)

(* ---------------------- the pipeline with fairness --------------------- *)
\* The FileReader fires error instead of load when the file cannot be read;
\* handleFileUpload sets no onerror handler, so nothing runs.
ReaderFails(r) ==
    /\ runs[r].pc = "reading"
    /\ runs' = [runs EXCEPT ![r].pc = "unread"]
    /\ UNCHANGED <<data, isProcessing, loadingStatus, progress, uploads,
                   filters, harness>>

\* the sheets uploaded where fairness is asked: none, one and two addresses
\* to look up, and one with nothing to look up
LiveSheets ==
    {parsed(json) : json \in {<<>>, <<RowNoCoords>>, <<RowNoCoords, RowOtherAddr>>,
                              <<RowHalfCoords, RowWithCoords>>, <<RowWithCoords>>}}

\* the FileReader settles with load or error
ReaderSettles(r) == ReaderLoads(r, LiveSheets) \/ DecodeFails(r) \/ ReaderFails(r)

LiveNext ==
    \/ HandleFileUpload
    \/ \E r \in RunIds : ReaderSettles(r)
    \/ \E r \in RunIds : GeocodeSettles(r)
    \/ \E r \in RunIds : PacingElapses(r)
    \/ \E r \in RunIds : SwitchOff(r)

\* Every read settles, every lookup settles, every timer fires; the user
\* need not upload anything.
Fairness ==
    \A r \in RunIds :
        /\ WF_vars(ReaderSettles(r))
        /\ WF_vars(GeocodeSettles(r))
        /\ WF_vars(PacingElapses(r))
        /\ WF_vars(SwitchOff(r))

LiveSpec == Init /\ [][LiveNext]_vars /\ Fairness

(* ------------------------------ claim C23 ------------------------------ *)
Started(r) == runs[r].pc # "none"

Finished(r) == runs[r].pc \in {"end", "failed"}

\* C23: provided every lookup eventually resolves, every started upload
\* eventually finishes: a run whose file decodes eventually looks up all its
\* candidate addresses, commits and reaches progress 100, and in every case
\* the processing indicator is eventually switched off and stays off until
\* the next upload. Asked only while no other upload is under way, and the
\* last only once every upload has ended, so that overlapping uploads are
\* not what refutes it.
C23_UploadsFinish ==
    /\ \A r \in RunIds :
           [](Started(r) /\ Alone => <>(Finished(r) \/ ~Alone))
    /\ \A r \in RunIds :
           [](Enriching(r) /\ Alone =>
                  <>(\/ ~Alone
                     \/ /\ Committed(r)
                        /\ Len(runs[r].lookups) = Len(runs[r].uniqueAddresses)))
    /\ [][\A r \in RunIds : Commits(r) => progress' = 100]_vars
    /\ [](isProcessing /\ Alone => <>(~isProcessing \/ ~Alone))
    /\ [][((\A r \in RunIds : Ended(r)) /\ ~isProcessing /\ isProcessing') =>
              uploads' = uploads + 1]_vars

(* ------------------------------ claim C24 ------------------------------ *)
\* the label a record's entity field is counted under, by the claim
Bucket(field) == IF field = Dash THEN Others ELSE field

\* the sum of spec_amount of the filtered records counted under label
BucketSum(fields, label) ==
    SumOver([i \in 1..Len(Filtered) |->
                 IF Bucket(fields[i]) = label THEN Filtered[i].spec_amount ELSE 0],
            Len(Filtered))

FirstRecord(name) ==
    Filtered[CHOOSE k \in 1..Len(Filtered) :
                 /\ Filtered[k].project_name = name
                 /\ FirstOfProject(Filtered, k)]

\* C25: each GroupedProject takes its address, latitude, longitude,
\* designer, constructor and progress from the first record of that project
\* in the filtered set; later records of the project never change them.
C25_FirstRecordSupplies ==
    \A k \in 1..Len(Groups) :
        LET g == Groups[k]
            d == FirstRecord(g.name)
        IN  /\ g.address = d.address
            /\ g.latitude = d.latitude
            /\ g.longitude = d.longitude
            /\ g.designer = d.designer
            /\ g.constructor = d.constructor
            /\ g.progress = d.progress

\* project A has two records, built by K and then by L: with every month
\* shown its group of two line items names K, and under month 6, where the
\* second record is the first one left, a record set holding both names L
C25_Witness ==
    \E k \in 1..Len(Groups) :
        /\ Groups[k].name = <<"A">>
        /\ Cardinality({d \in Elements(data) : d.project_name = <<"A">>}) = 2
        /\ \/ /\ selectedMonth = 0
              /\ Len(Groups[k].specs) = 2
              /\ Groups[k].constructor = <<"K">>
              /\ \E d \in Elements(Filtered) :
                     d.project_name = <<"A">> /\ d.constructor = <<"L">>
           \/ /\ selectedMonth = 6
              /\ Groups[k].constructor = <<"L">>

(* ------------------------------ claim C26 ------------------------------ *)
\* the upload that was started last
LastStarted == uploads

\* C26: when two uploads overlap, the record set shown once both runs have
\* finished is the one produced from the upload that was started last,
\* whatever the number of addresses each run has to look up.
C26_LastStartedWins ==
    (uploads = MaxUploads /\ \A r \in RunIds : Committed(r) /\ runs[r].pc = "end") =>
        data = runs[LastStarted].saved

(* ------------------------------ claim C27 ------------------------------ *)
\* run r has started and has neither committed nor failed
Uncommitted(r) == runs[r].pc \in {"reading", "fetch", "delay"}

\* C27: the processing indicator is on at every moment at which some
\* ingestion run has started and has not yet committed its record set, also
\* when uploads overlap; the delayed switch-off scheduled by one run never
\* turns the indicator off while another run is still looking up addresses.
C27_IndicatorCoversEveryRun ==
    /\ [](\A r \in RunIds : Uncommitted(r) => isProcessing)
    /\ [][\A r \in RunIds :
              (runs[r].pc = "timer" /\ runs'[r].pc = "end" /\ ~isProcessing') =>
                  \A q \in RunIds \ {r} : ~Enriching(q)]_vars

(* ------------------- uploads together with the filters ----------------- *)
\* the sheets uploaded where the filters are used: one with an address to
\* look up, and three of other years and months with nothing to look up
ViewSheets ==
    {parsed(json) : json \in {<<RowNoCoords>>,
                              <<AggRows[1], AggRows[2]>>,
                              <<AggRows[3], AggRows[5]>>,
                              <<AggRows[1], AggRows[3], AggRows[5]>>}}

ViewNext ==
    \/ HandleFileUpload
    \/ \E r \in RunIds : DecodeFails(r)
    \/ \E r \in RunIds : ReaderLoads(r, ViewSheets)
    \/ \E r \in RunIds : GeocodeSettles(r)
    \/ \E r \in RunIds : PacingElapses(r)
    \/ \E r \in RunIds : SwitchOff(r)
    \/ SetSelectedYear
    \/ SetSelectedMonth

ViewSpec == Init /\ [][ViewNext]_vars

(* ------------------------------ claim C28 ------------------------------ *)
\* the months present among the records of the active year
MonthsOfActiveYear ==
    {d.month : d \in {e \in Elements(data) : selectedYear = 0 \/ e.year = selectedYear}}

\* C28: after any sequence of uploads and filter changes the active year
\* filter is 0 or a year present in the current record set, and the active
\* month filter is 0 or a month present among the records of the active
\* year; a committed upload never leaves a filter selecting an absent value.
C28_FiltersSelectPresentValues ==
    /\ selectedYear = 0 \/ selectedYear \in YearSet
    /\ selectedMonth = 0 \/ selectedMonth \in MonthsOfActiveYear

(* ------------------------------ claim C29 ------------------------------ *)
\* C29: for every record set and filters the summary and the grouping
\* agree: the summary's project count equals the number of GroupedProjects
\* and its total spec_amount equals the sum of totalAmount over all groups.
C29_SummaryAgreesWithGroups ==
    LET groups == Groups
        s == Summary
    IN  /\ s.siteCount = Len(groups)
        /\ s.totalSpec = SumOver([k \in 1..Len(groups) |-> groups[k].totalAmount],
                                 Len(groups))

\* year 2024 chosen among records of other years too: project A's two
\* records make one group, so there are fewer groups than records
C29_Witness ==
    /\ selectedYear = 2024
    /\ Len(Filtered) < Len(data)
    /\ Len(Groups) < Len(Filtered)
    /\ Summary.siteCount = 3
    /\ Summary.totalSpec = 1500

(* ------------------------------ claim C30 ------------------------------ *)
\* the sum of the 12 values of the month trend
MonthValues ==
    LET series == Trends.monthTrend
    IN  SumOver([m \in 1..Len(series) |-> series[m].value], Len(series))

\* the sum of spec_amount of the records of the reference year whose month
\* is (dated = TRUE) or is not (dated = FALSE) one of the months 1..12
ReferenceYearSum(dated) ==
    SumOver([i \in 1..Len(data) |->
                 IF /\ data[i].year = ReferenceYear
                    /\ (data[i].month \in 1..MonthsInYear) = dated
                 THEN data[i].spec_amount ELSE 0], Len(data))

\* C30 as stated: for every non-empty record set the 12 values of the month
\* trend sum to the year-trend value of the reference year, so every record
\* of the reference year is counted in exactly one month bucket.
C30_MonthsSumToYearValue ==
    data # <<>> =>
        LET series == Trends.yearTrend
        IN  \E k \in 1..Len(series) :
                /\ series[k].label = YearLabel(ReferenceYear)
                /\ MonthValues = series[k].value

\* C30, amended: for every non-empty record set the 12 values of the month
\* trend sum to the spec_amount of the records of the reference year whose
\* month is one of 1..12; the year-trend value of the reference year is that
\* sum plus the spec_amount of its records with any other month (0 when the
\* month cell is missing or unparsable), which are in no month bucket.
C30_MonthsSumToDatedRecords ==
    data # <<>> =>
        LET series == Trends.yearTrend
        IN  /\ MonthValues = ReferenceYearSum(TRUE)
            /\ \E k \in 1..Len(series) :
                   /\ series[k].label = YearLabel(ReferenceYear)
                   /\ series[k].value = ReferenceYearSum(TRUE) + ReferenceYearSum(FALSE)

\* 2024 is the reference year and has a record of 300 without a month next
\* to records of May and June: the months sum to less than the year's value
C30_Witness ==
    /\ ReferenceYear = 2024
    /\ \E d \in Elements(data) : d.year = 2024 /\ d.month = 0 /\ d.spec_amount = 300
    /\ ReferenceYearSum(FALSE) = 300
    /\ MonthValues = 1500
    /\ \E k \in 1..Len(Trends.yearTrend) : Trends.yearTrend[k].value = 1800

====
